---- MODULE Spec2Model ----
(***************************************************************************)
(* Model of the errcode crate: the packed (unboxed) error representation,  *)
(* the full (boxed) representation, their frame iterators and the Error    *)
(* facade.                                                                 *)
(*                                                                         *)
(* References (&'static T) are modelled as machine addresses; Option<&T>   *)
(* is the nullable address, 0 standing for None, as rustc lays it out.     *)
(* usize is WordBits wide.                                                 *)
(***************************************************************************)
EXTENDS Integers, Sequences, FiniteSets, TLC

\* ------------------------------------------------------------------ bounds

\* Width of usize in the model.
WordBits == 8

\* Most push_context calls made on one error instance.
MaxPush == 3

\* ------------------------------------------------------- machine arithmetic

RECURSIVE Pow2(_)
Pow2(n) == IF n = 0 THEN 1 ELSE 2 * Pow2(n - 1)

USIZE_MAX == Pow2(WordBits) - 1

RECURSIVE BitAnd(_, _)
BitAnd(a, b) ==
    IF a = 0 \/ b = 0 THEN 0
    ELSE ((a % 2) * (b % 2)) + 2 * BitAnd(a \div 2, b \div 2)

RECURSIVE BitOr(_, _)
BitOr(a, b) ==
    IF a = 0 THEN b
    ELSE IF b = 0 THEN a
    ELSE (IF (a % 2) + (b % 2) > 0 THEN 1 ELSE 0) + 2 * BitOr(a \div 2, b \div 2)

BitNot(a) == USIZE_MAX - a

Shl(a, k) == (a * Pow2(k)) % Pow2(WordBits)

Shr(a, k) == a \div Pow2(k)

\* ------------------------------------------------------------ static memory

\* The ErrorCodeInfo statics of the program, by address: two variants of one
\* code type (TypeId 1) and one variant of another code type (TypeId 2) whose
\* numeric value coincides with the first.
ErrorCodeInfoAt ==
    (64 :> [tid |-> 1, value |-> 3]) @@
    (68 :> [tid |-> 1, value |-> 7]) @@
    (72 :> [tid |-> 2, value |-> 3])

\* The DecodedLocation statics, by address.
DecodedLocationAt ==
    (96 :> [module |-> 1, line |-> 10, column |-> 5]) @@
    (104 :> [module |-> 1, line |-> 20, column |-> 1])

\* The ErrorSourceStatic statics, by address (4-aligned): two without a code,
\* two with one.
ErrorSourceStaticAt ==
    (8 :> [error_code |-> 0, message_static |-> 1,
           is_static_message_incomplete |-> FALSE, location |-> 96]) @@
    (12 :> [error_code |-> 0, message_static |-> 0,
            is_static_message_incomplete |-> FALSE, location |-> 0]) @@
    (16 :> [error_code |-> 64, message_static |-> 2,
            is_static_message_incomplete |-> TRUE, location |-> 104]) @@
    (20 :> [error_code |-> 72, message_static |-> 0,
            is_static_message_incomplete |-> FALSE, location |-> 0])

ErrorSourceStatics == DOMAIN ErrorSourceStaticAt

\* &'static str values used as type names: data pointer and byte length.
\* The third is the longest the packed representation takes, the last the
\* shortest it does not.
TypeNames ==
    { [ptr |-> 128, len |-> 9],
      [ptr |-> 140, len |-> 0],
      [ptr |-> 141, len |-> Pow2(WordBits - 2) - 1],
      [ptr |-> 144, len |-> Pow2(WordBits - 2)] }

NoName == [ptr |-> 0, len |-> 0]

\* ErrorOrigin: StaticOrigin(&ErrorSourceStatic) |
\*              TypeOrigin(&str, Option<&ErrorSourceStatic>)
StaticOrigin(ptr) == [kind |-> "StaticOrigin", name |-> NoName, src |-> ptr]

TypeOrigin(name, opt) == [kind |-> "TypeOrigin", name |-> name, src |-> opt]

\* error.rs error_code_for_error: None for every value.
error_code_for_error == 0

\* From<T> for Error: the origin handed to ErrorImpl::new; type_name is
\* type_name::<T>().
from(type_name) == TypeOrigin(type_name, error_code_for_error)

ErrorOrigins ==
    { StaticOrigin(p) : p \in ErrorSourceStatics } \cup
    { TypeOrigin(n, p) : n \in {[ptr |-> 128, len |-> 9]}, p \in {12, 16} } \cup
    { from(n) : n \in TypeNames }

\* Option<DecodedLocation>, by value.
NoLocation == [some |-> FALSE, module |-> 0, line |-> 0, column |-> 0]

SomeLocation(l) ==
    [some |-> TRUE, module |-> l.module, line |-> l.line, column |-> l.column]

\* What Location::caller() can give at the construction site: the first shares
\* module and line (not column) with the location of the descriptor at 8.
CallerLocations ==
    { [module |-> 1, line |-> 10, column |-> 9],
      [module |-> 2, line |-> 30, column |-> 1] }

\* What Location::caller() gives at the push_context call site.
PushCallerLocation == [module |-> 2, line |-> 40, column |-> 3]

\* Option<&Arguments>: None, or a message to render.
Arguments == {0, 7}

\* ------------------------------------------------------ build configuration

\* The representation features of the crate.
Features == {"repr_full", "repr_unboxed", "repr_unboxed_location"}

\* cfg of `mod full; use full::ErrorImpl;`
full_selected(fs) == "repr_full" \in fs

\* cfg of `mod unboxed; use unboxed::ErrorImpl;`
unboxed_selected(fs) ==
    \/ "repr_unboxed" \in fs
    \/ "repr_unboxed_location" \in fs
    \/ ~("repr_full" \in fs)

\* cfg of the compile_error! item, as it would be if the pair of the two
\* unboxed features were left out.
compile_error_misses_pair(fs) ==
    \/ "repr_full" \in fs /\ "repr_unboxed_location" \in fs
    \/ "repr_full" \in fs /\ "repr_unboxed" \in fs

\* cfg of the compile_error! item.
compile_error(fs) ==
    \/ "repr_full" \in fs /\ "repr_unboxed_location" \in fs
    \/ "repr_full" \in fs /\ "repr_unboxed" \in fs
    \/ "repr_unboxed_location" \in fs /\ "repr_unboxed" \in fs

\* The unboxed ErrorImpl keeps original_location under this cfg.
unboxed_repr(fs) ==
    IF "repr_unboxed_location" \in fs THEN "repr_unboxed_location" ELSE "repr_unboxed"

\* ------------------------------------------------------------------- state

VARIABLES
    features,           \* the cargo features the crate is built with
    repr,               \* the representation that build compiles in
    origin,             \* the ErrorOrigin given to new()
    hist,               \* the descriptors given to push_context(), in call order
    aborted,            \* the process was stopped by a failed assertion
    origin_info,        \* unboxed ErrorImpl.origin_info: PackedOriginInfo
    original_location,  \* unboxed ErrorImpl.original_location
    steps,              \* full ErrorImplInner.steps
    current_code,       \* full ErrorImplInner.current_code
    iter,               \* the live ErrorImplIter, if any
    frames              \* the frames the live iterator has returned so far

vars == <<features, repr, origin, hist, aborted, origin_info, original_location,
          steps, current_code, iter, frames>>

\* --------------------------------------------------- packed representation

TAG_STATIC_ORIGINAL == 0
TAG_STATIC_TYPE_ONLY == 1
TAG_STATIC_CONTEXT_ONLY == 2
TAG_MASK == 3
OMITTED_BIT_MASK == 1

MAX_TYPE_LEN == Shr(USIZE_MAX, 2) + 1

\* The assertion as it would be if it let a length of MAX_TYPE_LEN through.
for_origin_asserts_off_by_one(e) ==
    (e.kind = "TypeOrigin" /\ e.src = 0) => e.name.len <= MAX_TYPE_LEN

\* for_origin's assertion on the type name's length.
for_origin_asserts(e) ==
    (e.kind = "TypeOrigin" /\ e.src = 0) => e.name.len < MAX_TYPE_LEN

\* for_origin as it would be if every type origin were packed by its name.
for_origin_packs_every_type_name(e) ==
    IF e.kind = "StaticOrigin"
    THEN [tag |-> BitOr(e.src, TAG_STATIC_ORIGINAL), additional |-> 0]
    ELSE [tag |-> BitOr(Shl(e.name.len, 2), TAG_STATIC_TYPE_ONLY),
          additional |-> e.name.ptr]

\* for_origin as it would be if a bare type name were packed as its shifted
\* length alone, without the TYPE_ONLY bit.
for_origin_bare_length(e) ==
    IF e.kind = "StaticOrigin" \/ e.src # 0
    THEN [tag |-> BitOr(e.src, TAG_STATIC_ORIGINAL), additional |-> 0]
    ELSE [tag |-> Shl(e.name.len, 2), additional |-> e.name.ptr]

for_origin(e) ==
    IF e.kind = "StaticOrigin" \/ e.src # 0
    THEN [tag |-> BitOr(e.src, TAG_STATIC_ORIGINAL), additional |-> 0]
    ELSE [tag |-> BitOr(Shl(e.name.len, 2), TAG_STATIC_TYPE_ONLY),
          additional |-> e.name.ptr]

tag(self) == BitAnd(self.tag, TAG_MASK)

\* The address with_context casts to *const ErrorSourceStatic and dereferences
\* to read the recorded last frame.
with_context_original(self) == self.additional

\* Whether with_context reads the recorded last frame at all.
with_context_reads_original(self) ==
    /\ tag(self) \in {TAG_STATIC_ORIGINAL, TAG_STATIC_CONTEXT_ONLY}
    /\ self.additional # 0

\* What the read of `original.error_code.is_none()` can give.  Through an
\* aligned address it is the descriptor's field.  Through a misaligned one the
\* dereference is undefined behaviour: a build with debug assertions stops the
\* process at the alignment check ("abort"), any other build reads whatever
\* bytes lie there ("none" or "some").
original_reads(self) ==
    IF ~with_context_reads_original(self) THEN {"unread"}
    ELSE IF with_context_original(self) \in ErrorSourceStatics
    THEN IF ErrorSourceStaticAt[with_context_original(self)].error_code = 0
         THEN {"none"} ELSE {"some"}
    ELSE {"none", "some", "abort"}

\* with_context as it would be if the branch that keeps the recorded last
\* frame did not set the omitted bit.
with_context_keep_unflagged(self, source, read) ==
    IF tag(self) \in {TAG_STATIC_ORIGINAL, TAG_STATIC_CONTEXT_ONLY}
    THEN IF self.additional = 0
         THEN [self EXCEPT !.additional = source]
         ELSE IF read = "none" \/ ErrorSourceStaticAt[source].error_code # 0
              THEN [self EXCEPT !.additional = BitOr(source, OMITTED_BIT_MASK)]
              ELSE self
    ELSE IF tag(self) = TAG_STATIC_TYPE_ONLY
    THEN [tag |-> BitOr(source, TAG_STATIC_CONTEXT_ONLY), additional |-> 0]
    ELSE self

\* with_context as it would be if replacing the last frame also rewrote the
\* tag word with the pushed descriptor.
with_context_moves_first(self, source, read) ==
    IF tag(self) \in {TAG_STATIC_ORIGINAL, TAG_STATIC_CONTEXT_ONLY}
    THEN IF self.additional = 0
         THEN [self EXCEPT !.additional = source]
         ELSE IF read = "none" \/ ErrorSourceStaticAt[source].error_code # 0
              THEN [tag |-> BitOr(source, tag(self)),
                    additional |-> BitOr(source, OMITTED_BIT_MASK)]
              ELSE [self EXCEPT !.additional = BitOr(self.additional, OMITTED_BIT_MASK)]
    ELSE IF tag(self) = TAG_STATIC_TYPE_ONLY
    THEN [tag |-> BitOr(source, TAG_STATIC_CONTEXT_ONLY), additional |-> 0]
    ELSE self

\* with_context as it would be if a push onto an empty last slot recorded
\* nothing.
with_context_drops_first_push(self, source, read) ==
    IF tag(self) \in {TAG_STATIC_ORIGINAL, TAG_STATIC_CONTEXT_ONLY}
    THEN IF self.additional = 0
         THEN self
         ELSE IF read = "none" \/ ErrorSourceStaticAt[source].error_code # 0
              THEN [self EXCEPT !.additional = BitOr(source, OMITTED_BIT_MASK)]
              ELSE [self EXCEPT !.additional = BitOr(self.additional, OMITTED_BIT_MASK)]
    ELSE IF tag(self) = TAG_STATIC_TYPE_ONLY
    THEN [tag |-> BitOr(source, TAG_STATIC_CONTEXT_ONLY), additional |-> 0]
    ELSE self

\* with_context as it would be if a push on TYPE_ONLY tagged the new word
\* ORIGINAL.
with_context_type_to_original(self, source, read) ==
    IF tag(self) \in {TAG_STATIC_ORIGINAL, TAG_STATIC_CONTEXT_ONLY}
    THEN IF self.additional = 0
         THEN [self EXCEPT !.additional = source]
         ELSE IF read = "none" \/ ErrorSourceStaticAt[source].error_code # 0
              THEN [self EXCEPT !.additional = BitOr(source, OMITTED_BIT_MASK)]
              ELSE [self EXCEPT !.additional = BitOr(self.additional, OMITTED_BIT_MASK)]
    ELSE IF tag(self) = TAG_STATIC_TYPE_ONLY
    THEN [tag |-> BitOr(source, TAG_STATIC_ORIGINAL), additional |-> 0]
    ELSE self

\* with_context as it would be if the first record into the empty last slot
\* set the omitted bit.
with_context_flags_first_record(self, source, read) ==
    IF tag(self) \in {TAG_STATIC_ORIGINAL, TAG_STATIC_CONTEXT_ONLY}
    THEN IF self.additional = 0
         THEN [self EXCEPT !.additional = BitOr(source, OMITTED_BIT_MASK)]
         ELSE IF read = "none" \/ ErrorSourceStaticAt[source].error_code # 0
              THEN [self EXCEPT !.additional = BitOr(source, OMITTED_BIT_MASK)]
              ELSE [self EXCEPT !.additional = BitOr(self.additional, OMITTED_BIT_MASK)]
    ELSE IF tag(self) = TAG_STATIC_TYPE_ONLY
    THEN [tag |-> BitOr(source, TAG_STATIC_CONTEXT_ONLY), additional |-> 0]
    ELSE self

\* with_context as it would be if the conversion of a TYPE_ONLY instance set
\* the omitted bit for the type name it drops.
with_context_flags_conversion(self, source, read) ==
    IF tag(self) \in {TAG_STATIC_ORIGINAL, TAG_STATIC_CONTEXT_ONLY}
    THEN IF self.additional = 0
         THEN [self EXCEPT !.additional = source]
         ELSE IF read = "none" \/ ErrorSourceStaticAt[source].error_code # 0
              THEN [self EXCEPT !.additional = BitOr(source, OMITTED_BIT_MASK)]
              ELSE [self EXCEPT !.additional = BitOr(self.additional, OMITTED_BIT_MASK)]
    ELSE IF tag(self) = TAG_STATIC_TYPE_ONLY
    THEN [tag |-> BitOr(source, TAG_STATIC_CONTEXT_ONLY), additional |-> OMITTED_BIT_MASK]
    ELSE self

\* with_context as it would be if a push on TYPE_ONLY set both tag bits.
with_context_sets_both_tag_bits(self, source, read) ==
    IF tag(self) \in {TAG_STATIC_ORIGINAL, TAG_STATIC_CONTEXT_ONLY}
    THEN IF self.additional = 0
         THEN [self EXCEPT !.additional = source]
         ELSE IF read = "none" \/ ErrorSourceStaticAt[source].error_code # 0
              THEN [self EXCEPT !.additional = BitOr(source, OMITTED_BIT_MASK)]
              ELSE [self EXCEPT !.additional = BitOr(self.additional, OMITTED_BIT_MASK)]
    ELSE IF tag(self) = TAG_STATIC_TYPE_ONLY
    THEN [tag |-> BitOr(source, TAG_MASK), additional |-> 0]
    ELSE self

\* with_context, given what the read of the recorded last frame gave.
with_context(self, source, read) ==
    IF tag(self) \in {TAG_STATIC_ORIGINAL, TAG_STATIC_CONTEXT_ONLY}
    THEN IF self.additional = 0
         THEN [self EXCEPT !.additional = source]
         ELSE IF read = "none" \/ ErrorSourceStaticAt[source].error_code # 0
              THEN [self EXCEPT !.additional = BitOr(source, OMITTED_BIT_MASK)]
              ELSE [self EXCEPT !.additional = BitOr(self.additional, OMITTED_BIT_MASK)]
    ELSE IF tag(self) = TAG_STATIC_TYPE_ONLY
    THEN [tag |-> BitOr(source, TAG_STATIC_CONTEXT_ONLY), additional |-> 0]
    ELSE self   \* unreachable_unchecked()

ty_name_asserts(self) == tag(self) = TAG_STATIC_TYPE_ONLY

\* ty_name as it would be if the length were read without shifting the tag
\* bits out.
ty_name_unshifted(self) == [ptr |-> self.additional, len |-> self.tag]

ty_name(self) == [ptr |-> self.additional, len |-> Shr(self.tag, 2)]

context_asserts(self) ==
    tag(self) = TAG_STATIC_ORIGINAL \/ tag(self) = TAG_STATIC_CONTEXT_ONLY

context_first(self) == BitAnd(self.tag, BitNot(TAG_MASK))

\* Option<&ErrorSourceStatic>, 0 for None.
context_second(self) == BitAnd(self.additional, BitNot(OMITTED_BIT_MASK))

has_omitted_context(self) ==
    IF tag(self) = TAG_STATIC_CONTEXT_ONLY \/ tag(self) = TAG_STATIC_ORIGINAL
    THEN BitAnd(self.additional, OMITTED_BIT_MASK) = OMITTED_BIT_MASK
    ELSE FALSE

\* code as it would be if it did not fall back to the first frame once a last
\* frame is recorded.
code_no_fallback(self) ==
    IF tag(self) = TAG_STATIC_TYPE_ONLY
    THEN 0
    ELSE IF context_second(self) # 0
         THEN ErrorSourceStaticAt[context_second(self)].error_code
         ELSE ErrorSourceStaticAt[context_first(self)].error_code

\* The assertions code passes: none for a bare type name, else the one of
\* context_second and, when it falls through, the one of context_first.
code_asserts(self) ==
    IF tag(self) = TAG_STATIC_TYPE_ONLY
    THEN TRUE
    ELSE /\ context_asserts(self)
         /\ (context_second(self) = 0
               \/ ErrorSourceStaticAt[context_second(self)].error_code = 0)
                => context_asserts(self)

\* Option<&ErrorCodeInfo>, 0 for None.
code(self) ==
    IF tag(self) = TAG_STATIC_TYPE_ONLY
    THEN 0
    ELSE IF context_second(self) # 0
            /\ ErrorSourceStaticAt[context_second(self)].error_code # 0
         THEN ErrorSourceStaticAt[context_second(self)].error_code
         ELSE ErrorSourceStaticAt[context_first(self)].error_code

\* ------------------------------------------------------------ error frames

\* Option<MessageContainer>
NoMessage == [kind |-> "None", text |-> 0]

\* ErrorFrameData
InternalContext(ctx) ==
    [kind |-> "InternalContext", ctx |-> ctx, ty |-> NoName,
     msg |-> NoMessage, code |-> 0]

TypeFrame(ty, info) ==
    [kind |-> "TypeFrame", ctx |-> "", ty |-> ty, msg |-> NoMessage, code |-> info]

NormalFrame(msg, info) ==
    [kind |-> "NormalFrame", ctx |-> "", ty |-> NoName, msg |-> msg, code |-> info]

\* MessageContainer::Formatted, of the full representation.
Formatted(text) == [kind |-> "Formatted", text |-> text]

\* decode_static as it would be if it never marked a static message incomplete.
decode_static_never_incomplete(data, formatted) ==
    NormalFrame(
        IF formatted # NoMessage THEN formatted
        ELSE IF ErrorSourceStaticAt[data].message_static # 0
             THEN [kind |-> "Static",
                   text |-> ErrorSourceStaticAt[data].message_static]
             ELSE NoMessage,
        ErrorSourceStaticAt[data].error_code)

\* ErrorFrameData::decode_static; data is a descriptor's address, formatted an
\* Option<MessageContainer>.
decode_static(data, formatted) ==
    NormalFrame(
        IF formatted # NoMessage THEN formatted
        ELSE IF ErrorSourceStaticAt[data].message_static # 0
             THEN IF ErrorSourceStaticAt[data].is_static_message_incomplete
                  THEN [kind |-> "IncompleteStatic",
                        text |-> ErrorSourceStaticAt[data].message_static]
                  ELSE [kind |-> "Static",
                        text |-> ErrorSourceStaticAt[data].message_static]
             ELSE NoMessage,
        ErrorSourceStaticAt[data].error_code)

ErrorFrame(data, location) == [data |-> data, location |-> location]

\* next() returning None.
NoFrame == ErrorFrame(InternalContext("None"), NoLocation)

\* is_same as it would be if it compared the column as well.
is_same_with_column(self, other) ==
    self.module = other.module /\ self.line = other.line /\ self.column = other.column

\* DecodedLocation::is_same
is_same(self, other) == self.module = other.module /\ self.line = other.line

\* Option<&'static DecodedLocation> copied out: `.map(|x| *x)`.
location_of(data) ==
    IF ErrorSourceStaticAt[data].location = 0 THEN NoLocation
    ELSE SomeLocation(DecodedLocationAt[ErrorSourceStaticAt[data].location])

\* ------------------------------------------------------- unboxed iterator

NoIter ==
    [active |-> FALSE, phase |-> "None", ended |-> FALSE, idx |-> 0,
     origin_info |-> [tag |-> 0, additional |-> 0],
     original_location |-> NoLocation]

\* iter as it would be if a new iterator began after the type phase.
unboxed_iter_skips_type_phase(info, loc) ==
    [active |-> TRUE, phase |-> "LocationMismatchFrame", ended |-> FALSE, idx |-> 0,
     origin_info |-> info, original_location |-> loc]

\* unboxed ErrorImpl::iter
unboxed_iter(info, loc) ==
    [active |-> TRUE, phase |-> "TypeContext", ended |-> FALSE, idx |-> 0,
     origin_info |-> info, original_location |-> loc]

\* The construction-mismatch test of the LocationMismatchFrame phase.
location_mismatch(it) ==
    /\ tag(it.origin_info) = TAG_STATIC_ORIGINAL
    /\ ErrorSourceStaticAt[context_first(it.origin_info)].location # 0
    /\ it.original_location.some
    /\ ~is_same(DecodedLocationAt[
                    ErrorSourceStaticAt[context_first(it.origin_info)].location],
                it.original_location)

\* next as it would be if the FirstContext phase did not move on after its frame.
unboxed_next_stays_in_first(it) ==
    LET info == it.origin_info
        t == tag(info)
        has_context == t = TAG_STATIC_ORIGINAL \/ t = TAG_STATIC_CONTEXT_ONLY
        p1 == IF it.phase = "TypeContext" THEN "LocationMismatchFrame" ELSE it.phase
        p2 == IF p1 = "LocationMismatchFrame" THEN "FirstContext" ELSE p1
        p3 == IF p2 = "FirstContext" THEN "LastContext" ELSE p2
        p4 == IF p3 = "LastContext" THEN "FramesOmitted" ELSE p3
        p5 == IF p4 = "FramesOmitted" THEN "Ended" ELSE p4
    IN  IF it.phase = "TypeContext" /\ t = TAG_STATIC_TYPE_ONLY
        THEN [phase |-> "Ended",
              item |-> ErrorFrame(TypeFrame(ty_name(info), 0), it.original_location)]
        ELSE IF it.phase = "TypeContext" /\ t = TAG_STATIC_CONTEXT_ONLY
        THEN [phase |-> p1,
              item |-> ErrorFrame(InternalContext("OriginalTypeLost"),
                                  it.original_location)]
        ELSE IF p1 = "LocationMismatchFrame" /\ location_mismatch(it)
        THEN [phase |-> p2,
              item |-> ErrorFrame(InternalContext("ErrorTypeConstructed"),
                                  location_of(context_first(info)))]
        ELSE IF p2 = "FirstContext" /\ has_context
        THEN [phase |-> p2,
              item |-> ErrorFrame(decode_static(context_first(info), NoMessage),
                                  IF t = TAG_STATIC_ORIGINAL
                                  THEN it.original_location
                                  ELSE location_of(context_first(info)))]
        ELSE IF p3 = "LastContext" /\ has_context /\ context_second(info) # 0
        THEN [phase |-> p4,
              item |-> ErrorFrame(decode_static(context_second(info), NoMessage),
                                  location_of(context_second(info)))]
        ELSE IF p4 = "FramesOmitted" /\ has_context /\ has_omitted_context(info)
        THEN [phase |-> p5,
              item |-> ErrorFrame(InternalContext("FurtherFramesOmitted"), NoLocation)]
        ELSE [phase |-> p5, item |-> NoFrame]

\* next as it would be if returning None put the iterator back to its first phase.
unboxed_next_restarts(it) ==
    LET info == it.origin_info
        t == tag(info)
        has_context == t = TAG_STATIC_ORIGINAL \/ t = TAG_STATIC_CONTEXT_ONLY
        p1 == IF it.phase = "TypeContext" THEN "LocationMismatchFrame" ELSE it.phase
        p2 == IF p1 = "LocationMismatchFrame" THEN "FirstContext" ELSE p1
        p3 == IF p2 = "FirstContext" THEN "LastContext" ELSE p2
        p4 == IF p3 = "LastContext" THEN "FramesOmitted" ELSE p3
        p5 == IF p4 = "FramesOmitted" THEN "Ended" ELSE p4
    IN  IF it.phase = "TypeContext" /\ t = TAG_STATIC_TYPE_ONLY
        THEN [phase |-> "Ended",
              item |-> ErrorFrame(TypeFrame(ty_name(info), 0), it.original_location)]
        ELSE IF it.phase = "TypeContext" /\ t = TAG_STATIC_CONTEXT_ONLY
        THEN [phase |-> p1,
              item |-> ErrorFrame(InternalContext("OriginalTypeLost"),
                                  it.original_location)]
        ELSE IF p1 = "LocationMismatchFrame" /\ location_mismatch(it)
        THEN [phase |-> p2,
              item |-> ErrorFrame(InternalContext("ErrorTypeConstructed"),
                                  location_of(context_first(info)))]
        ELSE IF p2 = "FirstContext" /\ has_context
        THEN [phase |-> p3,
              item |-> ErrorFrame(decode_static(context_first(info), NoMessage),
                                  IF t = TAG_STATIC_ORIGINAL
                                  THEN it.original_location
                                  ELSE location_of(context_first(info)))]
        ELSE IF p3 = "LastContext" /\ has_context /\ context_second(info) # 0
        THEN [phase |-> p4,
              item |-> ErrorFrame(decode_static(context_second(info), NoMessage),
                                  location_of(context_second(info)))]
        ELSE IF p4 = "FramesOmitted" /\ has_context /\ has_omitted_context(info)
        THEN [phase |-> p5,
              item |-> ErrorFrame(InternalContext("FurtherFramesOmitted"), NoLocation)]
        ELSE [phase |-> "TypeContext", item |-> NoFrame]

\* next as it would be if the original-type-lost marker were given for every
\* state that is not TYPE_ONLY.
unboxed_next_lost_without_type_origin(it) ==
    LET info == it.origin_info
        t == tag(info)
        has_context == t = TAG_STATIC_ORIGINAL \/ t = TAG_STATIC_CONTEXT_ONLY
        p1 == IF it.phase = "TypeContext" THEN "LocationMismatchFrame" ELSE it.phase
        p2 == IF p1 = "LocationMismatchFrame" THEN "FirstContext" ELSE p1
        p3 == IF p2 = "FirstContext" THEN "LastContext" ELSE p2
        p4 == IF p3 = "LastContext" THEN "FramesOmitted" ELSE p3
        p5 == IF p4 = "FramesOmitted" THEN "Ended" ELSE p4
    IN  IF it.phase = "TypeContext" /\ t = TAG_STATIC_TYPE_ONLY
        THEN [phase |-> "Ended",
              item |-> ErrorFrame(TypeFrame(ty_name(info), 0), it.original_location)]
        ELSE IF it.phase = "TypeContext" /\ t # TAG_STATIC_TYPE_ONLY
        THEN [phase |-> p1,
              item |-> ErrorFrame(InternalContext("OriginalTypeLost"),
                                  it.original_location)]
        ELSE IF p1 = "LocationMismatchFrame" /\ location_mismatch(it)
        THEN [phase |-> p2,
              item |-> ErrorFrame(InternalContext("ErrorTypeConstructed"),
                                  location_of(context_first(info)))]
        ELSE IF p2 = "FirstContext" /\ has_context
        THEN [phase |-> p3,
              item |-> ErrorFrame(decode_static(context_first(info), NoMessage),
                                  IF t = TAG_STATIC_ORIGINAL
                                  THEN it.original_location
                                  ELSE location_of(context_first(info)))]
        ELSE IF p3 = "LastContext" /\ has_context /\ context_second(info) # 0
        THEN [phase |-> p4,
              item |-> ErrorFrame(decode_static(context_second(info), NoMessage),
                                  location_of(context_second(info)))]
        ELSE IF p4 = "FramesOmitted" /\ has_context /\ has_omitted_context(info)
        THEN [phase |-> p5,
              item |-> ErrorFrame(InternalContext("FurtherFramesOmitted"), NoLocation)]
        ELSE [phase |-> p5, item |-> NoFrame]

\* next as it would be if the omitted-frames marker did not depend on the
\* omitted flag.
unboxed_next_omitted_always(it) ==
    LET info == it.origin_info
        t == tag(info)
        has_context == t = TAG_STATIC_ORIGINAL \/ t = TAG_STATIC_CONTEXT_ONLY
        p1 == IF it.phase = "TypeContext" THEN "LocationMismatchFrame" ELSE it.phase
        p2 == IF p1 = "LocationMismatchFrame" THEN "FirstContext" ELSE p1
        p3 == IF p2 = "FirstContext" THEN "LastContext" ELSE p2
        p4 == IF p3 = "LastContext" THEN "FramesOmitted" ELSE p3
        p5 == IF p4 = "FramesOmitted" THEN "Ended" ELSE p4
    IN  IF it.phase = "TypeContext" /\ t = TAG_STATIC_TYPE_ONLY
        THEN [phase |-> "Ended",
              item |-> ErrorFrame(TypeFrame(ty_name(info), 0), it.original_location)]
        ELSE IF it.phase = "TypeContext" /\ t = TAG_STATIC_CONTEXT_ONLY
        THEN [phase |-> p1,
              item |-> ErrorFrame(InternalContext("OriginalTypeLost"),
                                  it.original_location)]
        ELSE IF p1 = "LocationMismatchFrame" /\ location_mismatch(it)
        THEN [phase |-> p2,
              item |-> ErrorFrame(InternalContext("ErrorTypeConstructed"),
                                  location_of(context_first(info)))]
        ELSE IF p2 = "FirstContext" /\ has_context
        THEN [phase |-> p3,
              item |-> ErrorFrame(decode_static(context_first(info), NoMessage),
                                  IF t = TAG_STATIC_ORIGINAL
                                  THEN it.original_location
                                  ELSE location_of(context_first(info)))]
        ELSE IF p3 = "LastContext" /\ has_context /\ context_second(info) # 0
        THEN [phase |-> p4,
              item |-> ErrorFrame(decode_static(context_second(info), NoMessage),
                                  location_of(context_second(info)))]
        ELSE IF p4 = "FramesOmitted" /\ has_context
        THEN [phase |-> p5,
              item |-> ErrorFrame(InternalContext("FurtherFramesOmitted"), NoLocation)]
        ELSE [phase |-> p5, item |-> NoFrame]

\* next as it would be if the first context frame always took the
\* descriptor's own location.
unboxed_next_first_own_location(it) ==
    LET info == it.origin_info
        t == tag(info)
        has_context == t = TAG_STATIC_ORIGINAL \/ t = TAG_STATIC_CONTEXT_ONLY
        p1 == IF it.phase = "TypeContext" THEN "LocationMismatchFrame" ELSE it.phase
        p2 == IF p1 = "LocationMismatchFrame" THEN "FirstContext" ELSE p1
        p3 == IF p2 = "FirstContext" THEN "LastContext" ELSE p2
        p4 == IF p3 = "LastContext" THEN "FramesOmitted" ELSE p3
        p5 == IF p4 = "FramesOmitted" THEN "Ended" ELSE p4
    IN  IF it.phase = "TypeContext" /\ t = TAG_STATIC_TYPE_ONLY
        THEN [phase |-> "Ended",
              item |-> ErrorFrame(TypeFrame(ty_name(info), 0), it.original_location)]
        ELSE IF it.phase = "TypeContext" /\ t = TAG_STATIC_CONTEXT_ONLY
        THEN [phase |-> p1,
              item |-> ErrorFrame(InternalContext("OriginalTypeLost"),
                                  it.original_location)]
        ELSE IF p1 = "LocationMismatchFrame" /\ location_mismatch(it)
        THEN [phase |-> p2,
              item |-> ErrorFrame(InternalContext("ErrorTypeConstructed"),
                                  location_of(context_first(info)))]
        ELSE IF p2 = "FirstContext" /\ has_context
        THEN [phase |-> p3,
              item |-> ErrorFrame(decode_static(context_first(info), NoMessage),
                                  location_of(context_first(info)))]
        ELSE IF p3 = "LastContext" /\ has_context /\ context_second(info) # 0
        THEN [phase |-> p4,
              item |-> ErrorFrame(decode_static(context_second(info), NoMessage),
                                  location_of(context_second(info)))]
        ELSE IF p4 = "FramesOmitted" /\ has_context /\ has_omitted_context(info)
        THEN [phase |-> p5,
              item |-> ErrorFrame(InternalContext("FurtherFramesOmitted"), NoLocation)]
        ELSE [phase |-> p5, item |-> NoFrame]

\* next as it would be if the first context frame were given only for tag
\* CONTEXT_ONLY.
unboxed_next_first_only_after_conversion(it) ==
    LET info == it.origin_info
        t == tag(info)
        has_context == t = TAG_STATIC_ORIGINAL \/ t = TAG_STATIC_CONTEXT_ONLY
        p1 == IF it.phase = "TypeContext" THEN "LocationMismatchFrame" ELSE it.phase
        p2 == IF p1 = "LocationMismatchFrame" THEN "FirstContext" ELSE p1
        p3 == IF p2 = "FirstContext" THEN "LastContext" ELSE p2
        p4 == IF p3 = "LastContext" THEN "FramesOmitted" ELSE p3
        p5 == IF p4 = "FramesOmitted" THEN "Ended" ELSE p4
    IN  IF it.phase = "TypeContext" /\ t = TAG_STATIC_TYPE_ONLY
        THEN [phase |-> "Ended",
              item |-> ErrorFrame(TypeFrame(ty_name(info), 0), it.original_location)]
        ELSE IF it.phase = "TypeContext" /\ t = TAG_STATIC_CONTEXT_ONLY
        THEN [phase |-> p1,
              item |-> ErrorFrame(InternalContext("OriginalTypeLost"),
                                  it.original_location)]
        ELSE IF p1 = "LocationMismatchFrame" /\ location_mismatch(it)
        THEN [phase |-> p2,
              item |-> ErrorFrame(InternalContext("ErrorTypeConstructed"),
                                  location_of(context_first(info)))]
        ELSE IF p2 = "FirstContext" /\ t = TAG_STATIC_CONTEXT_ONLY
        THEN [phase |-> p3,
              item |-> ErrorFrame(decode_static(context_first(info), NoMessage),
                                  IF t = TAG_STATIC_ORIGINAL
                                  THEN it.original_location
                                  ELSE location_of(context_first(info)))]
        ELSE IF p3 = "LastContext" /\ has_context /\ context_second(info) # 0
        THEN [phase |-> p4,
              item |-> ErrorFrame(decode_static(context_second(info), NoMessage),
                                  location_of(context_second(info)))]
        ELSE IF p4 = "FramesOmitted" /\ has_context /\ has_omitted_context(info)
        THEN [phase |-> p5,
              item |-> ErrorFrame(InternalContext("FurtherFramesOmitted"), NoLocation)]
        ELSE [phase |-> p5, item |-> NoFrame]

\* The assertions one call of unboxed ErrorImplIter::next passes, phase by
\* phase: ty_name for the type frame, context_first for the mismatch test and
\* the first context frame, context_second for the last context frame.
next_asserts(it) ==
    LET info == it.origin_info
        t == tag(info)
        has_context == t = TAG_STATIC_ORIGINAL \/ t = TAG_STATIC_CONTEXT_ONLY
        returns_type_phase == it.phase = "TypeContext"
                                /\ t \in {TAG_STATIC_TYPE_ONLY, TAG_STATIC_CONTEXT_ONLY}
        p1 == IF it.phase = "TypeContext" THEN "LocationMismatchFrame" ELSE it.phase
        p2 == IF p1 = "LocationMismatchFrame" THEN "FirstContext" ELSE p1
        p3 == IF p2 = "FirstContext" THEN "LastContext" ELSE p2
    IN  /\ (it.phase = "TypeContext" /\ t = TAG_STATIC_TYPE_ONLY) => ty_name_asserts(info)
        /\ ~returns_type_phase =>
              /\ (p1 = "LocationMismatchFrame" /\ t = TAG_STATIC_ORIGINAL)
                    => context_asserts(info)
              /\ (p2 = "FirstContext" /\ has_context) => context_asserts(info)
              /\ (p3 = "LastContext" /\ ~(p2 = "FirstContext" /\ has_context) /\ has_context)
                    => context_asserts(info)

\* unboxed ErrorImplIter::next: the phase left behind and the item returned.
unboxed_next(it) ==
    LET info == it.origin_info
        t == tag(info)
        has_context == t = TAG_STATIC_ORIGINAL \/ t = TAG_STATIC_CONTEXT_ONLY
        p1 == IF it.phase = "TypeContext" THEN "LocationMismatchFrame" ELSE it.phase
        p2 == IF p1 = "LocationMismatchFrame" THEN "FirstContext" ELSE p1
        p3 == IF p2 = "FirstContext" THEN "LastContext" ELSE p2
        p4 == IF p3 = "LastContext" THEN "FramesOmitted" ELSE p3
        p5 == IF p4 = "FramesOmitted" THEN "Ended" ELSE p4
    IN  IF it.phase = "TypeContext" /\ t = TAG_STATIC_TYPE_ONLY
        THEN [phase |-> "Ended",
              item |-> ErrorFrame(TypeFrame(ty_name(info), 0), it.original_location)]
        ELSE IF it.phase = "TypeContext" /\ t = TAG_STATIC_CONTEXT_ONLY
        THEN [phase |-> p1,
              item |-> ErrorFrame(InternalContext("OriginalTypeLost"),
                                  it.original_location)]
        ELSE IF p1 = "LocationMismatchFrame" /\ location_mismatch(it)
        THEN [phase |-> p2,
              item |-> ErrorFrame(InternalContext("ErrorTypeConstructed"),
                                  location_of(context_first(info)))]
        ELSE IF p2 = "FirstContext" /\ has_context
        THEN [phase |-> p3,
              item |-> ErrorFrame(decode_static(context_first(info), NoMessage),
                                  IF t = TAG_STATIC_ORIGINAL
                                  THEN it.original_location
                                  ELSE location_of(context_first(info)))]
        ELSE IF p3 = "LastContext" /\ has_context /\ context_second(info) # 0
        THEN [phase |-> p4,
              item |-> ErrorFrame(decode_static(context_second(info), NoMessage),
                                  location_of(context_second(info)))]
        ELSE IF p4 = "FramesOmitted" /\ has_context /\ has_omitted_context(info)
        THEN [phase |-> p5,
              item |-> ErrorFrame(InternalContext("FurtherFramesOmitted"), NoLocation)]
        ELSE [phase |-> p5, item |-> NoFrame]

\* --------------------------------------------------------- full backend

\* ErrorSourceStep
ErrorSourceStep(static_info, formatted_message, location) ==
    [static_info |-> static_info, formatted_message |-> formatted_message,
     location |-> location]

\* full ErrorImpl::new: the initial current_code.
full_new_code(source) ==
    IF source.kind = "StaticOrigin" THEN ErrorSourceStaticAt[source.src].error_code
    ELSE IF source.src # 0 THEN ErrorSourceStaticAt[source.src].error_code
    ELSE 0

\* full ErrorImpl::push_context: the current_code left behind.
full_push_code(cur, source) == ErrorSourceStaticAt[source].error_code

\* full ErrorImpl::iter
full_iter ==
    [active |-> TRUE, phase |-> "LocationMismatchFrame", ended |-> FALSE, idx |-> 0,
     origin_info |-> [tag |-> 0, additional |-> 0],
     original_location |-> NoLocation]

\* The while loop of full ErrorImplIter::next: both phases of a step are
\* passed without returning a frame, then the index moves on.
RECURSIVE full_next_loop(_, _, _)
full_next_loop(idx, phase, len) ==
    IF idx < len
    THEN full_next_loop(idx + 1, "Context", len)
    ELSE [idx |-> idx, phase |-> phase, item |-> NoFrame]

full_next(it, len) == full_next_loop(it.idx, it.phase, len)

\* ------------------------------------------------------------ Error facade

\* The values of the ErrorCode types a caller can hand to is_code: the type
\* (as its TypeId) and the variant's numeric value.
ErrorCodeValues ==
    { [tid |-> 1, value |-> 3], [tid |-> 1, value |-> 7], [tid |-> 2, value |-> 3] }

\* ErrorCodePrivate::is_value, implemented per code type outside this crate's
\* sources: the variant's number equals the given one.
value_is_value(val, value) == val.value = value

\* ErrorCodeInfo::is_value as it would be without the TypeId comparison.
is_value_ignores_type(self, val) == value_is_value(val, self.value)

\* ErrorCodeInfo::is_value
is_value(self, val) == self.tid = val.tid /\ value_is_value(val, self.value)

\* TypeId::of::<T>() of the ErrorCode types.
TypeIds == { v.tid : v \in ErrorCodeValues }

\* ErrorCodePrivate::from_value, implemented per code type outside this crate's
\* sources: the variant of type T with the given number; it panics when T has
\* no such variant.
from_value(T, value) ==
    IF [tid |-> T, value |-> value] \in ErrorCodeValues
    THEN [panics |-> FALSE, val |-> [tid |-> T, value |-> value]]
    ELSE [panics |-> TRUE, val |-> [tid |-> T, value |-> 0]]

\* Option<T> returned by decode_value, or the panic that ends the call.
DecodedValue(outcome, val) == [outcome |-> outcome, val |-> val]

\* ErrorCodeInfo::decode_value as it would be without the TypeId comparison.
decode_value_ignores_type(self, T) ==
    IF from_value(T, self.value).panics
    THEN DecodedValue("panic", from_value(T, self.value).val)
    ELSE DecodedValue("Some", from_value(T, self.value).val)

\* ErrorCodeInfo::decode_value::<T>
decode_value(self, T) ==
    IF self.tid = T
    THEN IF from_value(T, self.value).panics
         THEN DecodedValue("panic", from_value(T, self.value).val)
         ELSE DecodedValue("Some", from_value(T, self.value).val)
    ELSE DecodedValue("None", [tid |-> T, value |-> 0])

\* ErrorImplFunctions::code of the backend built in.
underlying_code ==
    IF repr = "repr_full" THEN current_code ELSE code(origin_info)

\* Error::is_code
is_code(value) ==
    LET code_info == underlying_code
    IN  IF code_info # 0
        THEN is_value(ErrorCodeInfoAt[code_info], value)
        ELSE FALSE

\* ------------------------------------------------------------------ Init

NoPacked == [tag |-> 0, additional |-> 0]

\* The packed state unboxed ErrorImpl::new builds; _args is not read.
unboxed_new(source, args) == for_origin(source)

\* push_context as it would be if a rendered message left a mark in the
\* packed state.
unboxed_push_context_marks_message(self, source, args, read) ==
    IF args = 0
    THEN with_context(self, source, read)
    ELSE [with_context(self, source, read) EXCEPT
              !.additional = BitOr(@, OMITTED_BIT_MASK)]

\* The packed state unboxed ErrorImpl::push_context leaves; _args is not read.
unboxed_push_context(self, source, args, read) == with_context(self, source, read)

\* unboxed ErrorImpl::new, for either unboxed feature.
InitUnboxed ==
    \E fs \in SUBSET Features,
       source \in ErrorOrigins, args \in Arguments, caller \in CallerLocations :
        /\ ~compile_error(fs)
        /\ unboxed_selected(fs)
        /\ features = fs
        /\ repr = unboxed_repr(fs)
        /\ origin = source
        /\ hist = <<>>
        /\ aborted = ~for_origin_asserts(source)
        /\ origin_info = IF for_origin_asserts(source) THEN unboxed_new(source, args)
                         ELSE NoPacked
        /\ original_location = IF unboxed_repr(fs) = "repr_unboxed_location"
                               THEN SomeLocation(caller) ELSE NoLocation
        /\ steps = <<>>
        /\ current_code = 0
        /\ iter = NoIter
        /\ frames = <<>>

\* full ErrorImpl::new
InitFull ==
    \E fs \in SUBSET Features,
       source \in ErrorOrigins, args \in Arguments, caller \in CallerLocations :
        /\ ~compile_error(fs)
        /\ full_selected(fs)
        /\ features = fs
        /\ repr = "repr_full"
        /\ origin = source
        /\ hist = <<>>
        /\ aborted = FALSE
        /\ origin_info = NoPacked
        /\ original_location = NoLocation
        /\ steps = <<ErrorSourceStep(source, args, SomeLocation(caller))>>
        /\ current_code = full_new_code(source)
        /\ iter = NoIter
        /\ frames = <<>>

\* A feature set the build rejects: no ErrorImpl exists.
InitRejected ==
    \E fs \in SUBSET Features :
        /\ compile_error(fs)
        /\ features = fs
        /\ repr = "compile_error"
        /\ origin = StaticOrigin(0)
        /\ hist = <<>>
        /\ aborted = FALSE
        /\ origin_info = NoPacked
        /\ original_location = NoLocation
        /\ steps = <<>>
        /\ current_code = 0
        /\ iter = NoIter
        /\ frames = <<>>

Init == InitUnboxed

InitConfigs == InitUnboxed \/ InitFull \/ InitRejected

\* --------------------------------------------------------------- actions

\* unboxed ErrorImpl::push_context.  The iterator in flight owns a copy of the
\* packed state and is left alone.
UnboxedPushContext(source, args) ==
    /\ repr \in {"repr_unboxed", "repr_unboxed_location"}
    /\ ~aborted
    /\ Len(hist) < MaxPush
    /\ hist' = Append(hist, source)
    /\ \E read \in original_reads(origin_info) :
         IF read = "abort"
         THEN /\ aborted' = TRUE
              /\ UNCHANGED origin_info
         ELSE /\ origin_info' = unboxed_push_context(origin_info, source, args, read)
              /\ UNCHANGED aborted
    /\ UNCHANGED <<features, repr, origin, original_location, steps, current_code, iter, frames>>

\* unboxed ErrorImpl::iter
UnboxedIter ==
    /\ repr \in {"repr_unboxed", "repr_unboxed_location"}
    /\ ~aborted
    /\ iter' = unboxed_iter(origin_info, original_location)
    /\ frames' = <<>>
    /\ UNCHANGED <<features, repr, origin, hist, aborted, origin_info, original_location,
                   steps, current_code>>

\* next of the unboxed iterator as it would be if the iterator read the packed
\* state of the instance instead of its own copy.
UnboxedNext_reads_instance ==
    /\ repr \in {"repr_unboxed", "repr_unboxed_location"}
    /\ ~aborted
    /\ iter.active
    /\ LET r == unboxed_next([iter EXCEPT !.origin_info = origin_info])
       IN  /\ iter' = [iter EXCEPT !.phase = r.phase,
                                   !.ended = (r.item = NoFrame)]
           /\ frames' = IF r.item = NoFrame THEN frames ELSE Append(frames, r.item)
    /\ UNCHANGED <<features, repr, origin, hist, aborted, origin_info, original_location,
                   steps, current_code>>

\* unboxed ErrorImplIter::next
UnboxedNext ==
    /\ repr \in {"repr_unboxed", "repr_unboxed_location"}
    /\ ~aborted
    /\ iter.active
    /\ LET r == unboxed_next(iter)
       IN  /\ iter' = [iter EXCEPT !.phase = r.phase,
                                   !.ended = (r.item = NoFrame)]
           /\ frames' = IF r.item = NoFrame THEN frames ELSE Append(frames, r.item)
    /\ UNCHANGED <<features, repr, origin, hist, aborted, origin_info, original_location,
                   steps, current_code>>

\* push_context of the full backend as it would be if the new step took the
\* place of the latest one.
FullPushContext_replaces_latest(source, args) ==
    /\ repr = "repr_full"
    /\ Len(hist) < MaxPush
    /\ ~iter.active
    /\ hist' = Append(hist, source)
    /\ steps' = [steps EXCEPT ![Len(steps)] =
                    ErrorSourceStep(StaticOrigin(source), args,
                                    SomeLocation(PushCallerLocation))]
    /\ current_code' = full_push_code(current_code, source)
    /\ UNCHANGED <<features, repr, origin, aborted, origin_info, original_location, iter, frames>>

\* full ErrorImpl::push_context.  It takes &mut self, so no iterator, which
\* borrows the instance, is alive.
FullPushContext(source, args) ==
    /\ repr = "repr_full"
    /\ Len(hist) < MaxPush
    /\ ~iter.active
    /\ hist' = Append(hist, source)
    /\ steps' = Append(steps, ErrorSourceStep(StaticOrigin(source), args,
                                              SomeLocation(PushCallerLocation)))
    /\ current_code' = full_push_code(current_code, source)
    /\ UNCHANGED <<features, repr, origin, aborted, origin_info, original_location, iter, frames>>

\* full ErrorImpl::iter
FullIter ==
    /\ repr = "repr_full"
    /\ iter' = full_iter
    /\ frames' = <<>>
    /\ UNCHANGED <<features, repr, origin, hist, aborted, origin_info, original_location,
                   steps, current_code>>

\* full ErrorImplIter::next
FullNext ==
    /\ repr = "repr_full"
    /\ iter.active
    /\ LET r == full_next(iter, Len(steps))
       IN  /\ iter' = [iter EXCEPT !.phase = r.phase, !.idx = r.idx,
                                   !.ended = (r.item = NoFrame)]
           /\ frames' = IF r.item = NoFrame THEN frames ELSE Append(frames, r.item)
    /\ UNCHANGED <<features, repr, origin, hist, aborted, origin_info, original_location,
                   steps, current_code>>

\* The full iterator is dropped, ending its borrow.
FullIterDrop ==
    /\ repr = "repr_full"
    /\ iter.active
    /\ iter' = NoIter
    /\ frames' = <<>>
    /\ UNCHANGED <<features, repr, origin, hist, aborted, origin_info, original_location,
                   steps, current_code>>

Next ==
    \/ \E source \in ErrorSourceStatics, args \in Arguments :
           UnboxedPushContext(source, args)
    \/ UnboxedIter
    \/ UnboxedNext

NextFull ==
    \/ \E source \in ErrorSourceStatics, args \in Arguments :
           FullPushContext(source, args)
    \/ FullIter
    \/ FullNext
    \/ FullIterDrop

\* The unboxed representations (the default build).
Spec == Init /\ [][Next]_vars

\* The full representation.
SpecFull == InitFull /\ [][NextFull]_vars

NextConfigs == Next \/ NextFull

\* Every build configuration.
SpecConfigs == InitConfigs /\ [][NextConfigs]_vars

\* ------------------------------------------------------------ properties

Unboxed == repr \in {"repr_unboxed", "repr_unboxed_location"}

HasCode(d) == ErrorSourceStaticAt[d].error_code # 0

CodeBearing(h) == { i \in 1..Len(h) : HasCode(h[i]) }

Latest(S) == CHOOSE i \in S : \A j \in S : j <= i

\* The most recently pushed code-bearing descriptor of a push history that
\* has one.
LastCodeBearing(h) == h[Latest(CodeBearing(h))]

\* The code of the descriptor the origin carries, if it carries one.
OriginCode ==
    IF origin.src # 0 THEN ErrorSourceStaticAt[origin.src].error_code ELSE 0

\* The pushes made once a first frame existed: all of them for an origin that
\* carries a descriptor, all but the first for a bare type origin.
PushesBeyondFirst == IF origin.src # 0 THEN Len(hist) ELSE Len(hist) - 1

OmittedMarker == ErrorFrame(InternalContext("FurtherFramesOmitted"), NoLocation)

\* The live unboxed iterator was taken from the instance as it is now and has
\* been run to its end.
UnboxedDecoded ==
    /\ Unboxed
    /\ ~aborted
    /\ iter.active
    /\ iter.ended
    /\ iter.origin_info = origin_info

\* C1: unboxed backend: whenever some pushed descriptor carries a code, code()
\* is the code of the most recently pushed code-bearing descriptor, however
\* many codeless descriptors were pushed after it.
C1_CodePreserved ==
    (Unboxed /\ ~aborted /\ CodeBearing(hist) # {}) =>
        code(origin_info) = ErrorSourceStaticAt[LastCodeBearing(hist)].error_code

\* C2: full backend: code() is the code of the most recent step, origin or
\* pushed, that carries a code; a codeless push leaves it unchanged.
C2_FullCodeOfLatestStep ==
    (repr = "repr_full") =>
        current_code = IF CodeBearing(hist) # {}
                       THEN ErrorSourceStaticAt[LastCodeBearing(hist)].error_code
                       ELSE OriginCode

\* C3: unboxed backend: when no pushed descriptor carries a code, code() is
\* the origin descriptor's code for a static origin and none for a bare type
\* origin.
C3_CodeFallsBackToOrigin ==
    (Unboxed /\ ~aborted /\ CodeBearing(hist) = {}) =>
        /\ origin.kind = "StaticOrigin" =>
               code(origin_info) = ErrorSourceStaticAt[origin.src].error_code
        /\ (origin.kind = "TypeOrigin" /\ origin.src = 0) =>
               code(origin_info) = 0

\* C3 witness: a static origin with a code after two codeless pushes.
C3_Witness ==
    /\ Unboxed
    /\ ~aborted
    /\ origin.kind = "StaticOrigin"
    /\ HasCode(origin.src)
    /\ Len(hist) >= 2
    /\ CodeBearing(hist) = {}
    /\ code(origin_info) # 0

\* C4: unboxed backend: after 0 or 1 pushes the omitted flag is clear and no
\* decode of the instance holds the omitted-frames marker; once two frames
\* were pushed beyond the first context frame the flag is set, and stays so.
C4_OmittedFlag ==
    Unboxed =>
        /\ Len(hist) <= 1 =>
               /\ ~has_omitted_context(origin_info)
               /\ \A i \in 1..Len(frames) : frames[i] # OmittedMarker
        /\ PushesBeyondFirst >= 2 => has_omitted_context(origin_info)

\* C4 witness: the flag set by the second push beyond the first frame of a
\* bare type origin, and decoded as the marker.
C4_Witness ==
    /\ UnboxedDecoded
    /\ origin.src = 0
    /\ Len(hist) = 3
    /\ has_omitted_context(origin_info)
    /\ Len(frames) > 0
    /\ frames[Len(frames)] = OmittedMarker

\* C5: unboxed backend: after any pushes the last-frame slot holds the most
\* recently pushed code-bearing descriptor if the push history has one, and
\* else the most recently pushed descriptor.
C5_LastSlot ==
    (Unboxed /\ ~aborted /\ Len(hist) > 0) =>
        context_second(origin_info) =
            IF CodeBearing(hist) # {} THEN LastCodeBearing(hist)
            ELSE hist[Len(hist)]

\* C6: unboxed backend: the first-frame slot, once set, is never altered by a
\* push: it is the origin's descriptor from construction on, or the first
\* pushed descriptor for a bare type origin, whose type name is what the
\* packed state holds until that push.
C6_FirstFrameFixed ==
    (Unboxed /\ (~aborted \/ Len(hist) > 0)) =>
        IF origin.src # 0
        THEN context_asserts(origin_info) /\ context_first(origin_info) = origin.src
        ELSE IF hist = <<>>
        THEN ty_name_asserts(origin_info) /\ ty_name(origin_info) = origin.name
        ELSE context_asserts(origin_info) /\ context_first(origin_info) = hist[1]

\* C6 witness: a static origin whose last frame was replaced by a later push.
C6_Witness ==
    /\ Unboxed
    /\ ~aborted
    /\ origin.kind = "StaticOrigin"
    /\ Len(hist) >= 3
    /\ has_omitted_context(origin_info)
    /\ context_second(origin_info) = hist[3]
    /\ context_second(origin_info) # origin.src
    /\ context_first(origin_info) = origin.src

\* The frame the full decoder owes for a stored step.
FullFrameOf(step) ==
    ErrorFrame(
        IF step.static_info.src # 0
        THEN decode_static(step.static_info.src,
                           IF step.formatted_message # 0
                           THEN [kind |-> "Formatted", text |-> step.formatted_message]
                           ELSE NoMessage)
        ELSE TypeFrame(step.static_info.name, 0),
        step.location)

\* C7: full backend: a decode after N pushes yields exactly N+1 substantive
\* frames, the origin step first and then the pushed steps in push order, and
\* no markers.
C7_FullDecodeComplete ==
    (repr = "repr_full" /\ iter.active /\ iter.ended) =>
        /\ Len(frames) = Len(hist) + 1
        /\ Len(frames) = Len(steps)
        /\ \A i \in 1..Len(frames) :
               /\ frames[i].data.kind # "InternalContext"
               /\ i <= Len(steps) => frames[i] = FullFrameOf(steps[i])

\* C8: Error::is_code(candidate) is true iff there is a current code and both
\* its type identity and its numeric value equal the candidate's.
C8_IsCode ==
    ~aborted =>
        LET current == underlying_code
        IN  \A v \in ErrorCodeValues :
                is_code(v) <=>
                    /\ current # 0
                    /\ ErrorCodeInfoAt[current].tid = v.tid
                    /\ ErrorCodeInfoAt[current].value = v.value

\* C8 witness: the current code, set by a push, has the numeric value of a
\* candidate of another type, and is_code rejects that candidate.
C8_Witness ==
    /\ ~aborted
    /\ Len(hist) >= 1
    /\ underlying_code # 0
    /\ ErrorCodeInfoAt[underlying_code] = [tid |-> 2, value |-> 3]
    /\ ~is_code([tid |-> 1, value |-> 3])
    /\ is_code([tid |-> 2, value |-> 3])

\* The frames of a decode that are substantive (built from a descriptor).
RECURSIVE Substantive(_)
Substantive(fs) ==
    IF fs = <<>> THEN <<>>
    ELSE IF Head(fs).data.kind = "NormalFrame"
    THEN <<Head(fs)>> \o Substantive(Tail(fs))
    ELSE Substantive(Tail(fs))

\* The scenario of C9: a static origin carrying a code, one codeless push, and
\* a finished decode of the result.
C9_Scenario ==
    /\ UnboxedDecoded
    /\ origin.kind = "StaticOrigin"
    /\ HasCode(origin.src)
    /\ Len(hist) = 1
    /\ ~HasCode(hist[1])

\* C9 as stated: in the scenario code() is still the origin's code and the
\* decode holds the first context frame only: no last frame, no omitted-frames
\* marker.
C9_OnlyFirstFrame ==
    C9_Scenario =>
        /\ code(origin_info) = ErrorSourceStaticAt[origin.src].error_code
        /\ Len(Substantive(frames)) = 1
        /\ \A i \in 1..Len(frames) : frames[i] # OmittedMarker

\* C9 as amended: in the scenario code() is still the origin's code and the
\* decode holds the first context frame (the origin's descriptor, at the
\* retained construction location) followed by a last context frame built
\* from the pushed descriptor, with no omitted-frames marker; the only frame
\* that can precede them is the construction-mismatch marker, present iff a
\* construction location is retained and differs in module or line from the
\* origin descriptor's own.
C9_FirstAndLastFrame ==
    C9_Scenario =>
        /\ code(origin_info) = ErrorSourceStaticAt[origin.src].error_code
        /\ Substantive(frames) =
               << ErrorFrame(decode_static(origin.src, NoMessage), original_location),
                  ErrorFrame(decode_static(hist[1], NoMessage), location_of(hist[1])) >>
        /\ \A i \in 1..Len(frames) : frames[i] # OmittedMarker
        /\ LET loc == ErrorSourceStaticAt[origin.src].location
               mismatch == /\ original_location.some
                           /\ loc # 0
                           /\ \/ DecodedLocationAt[loc].module # original_location.module
                              \/ DecodedLocationAt[loc].line # original_location.line
           IN  IF mismatch
               THEN /\ Len(frames) = 3
                    /\ frames[1].data = InternalContext("ErrorTypeConstructed")
               ELSE Len(frames) = 2

\* C9 witness: the scenario, decoded.
C9_Witness ==
    /\ C9_Scenario
    /\ origin.src = 16
    /\ hist = <<12>>
    /\ Len(frames) >= 2

\* C10: scenario: a static origin in the default build, three pushes of which
\* only the second carries a code: the pushes complete, code() is the second
\* push's code, and a decode yields exactly the first context frame, the last
\* context frame built from the second push, and the omitted-frames marker.
C10_ThreePushes ==
    (/\ repr = "repr_unboxed"
     /\ origin.kind = "StaticOrigin"
     /\ Len(hist) = 3
     /\ ~HasCode(hist[1]) /\ HasCode(hist[2]) /\ ~HasCode(hist[3])) =>
        /\ ~aborted
        /\ code(origin_info) = ErrorSourceStaticAt[hist[2]].error_code
        /\ (iter.active /\ iter.ended /\ iter.origin_info = origin_info) =>
               frames = << ErrorFrame(decode_static(origin.src, NoMessage), NoLocation),
                           ErrorFrame(decode_static(hist[2], NoMessage),
                                      location_of(hist[2])),
                           OmittedMarker >>


\* ---------------------------------------------------------------------------
\* C11.  An error converted from a foreign error value, with no context ever
\* pushed, has no current code (code() is None and is_code is false for every
\* candidate) and decodes to exactly one frame: the type frame naming the
\* value's type, at the construction site.
FromForeign == \E n \in TypeNames : origin = from(n)

C11_ForeignError ==
    (Unboxed /\ ~aborted /\ FromForeign /\ hist = <<>>) =>
        /\ code(origin_info) = 0
        /\ \A value \in ErrorCodeValues : ~is_code(value)
        /\ iter.active => Len(frames) <= 1
        /\ (iter.active /\ iter.ended) =>
               frames = <<ErrorFrame(TypeFrame(origin.name, 0), original_location)>>

\* A conversion of a value whose type name has 9 bytes, decoded to the end.
C11_Witness ==
    /\ Unboxed /\ ~aborted /\ hist = <<>>
    /\ origin = from([ptr |-> 128, len |-> 9])
    /\ iter.active /\ iter.ended
    /\ Len(frames) = 1


\* ---------------------------------------------------------------------------
\* C12.  In every decode of the unboxed backend the frames appear in the fixed
\* order: type frame or original-type-lost marker, construction-mismatch
\* marker, first context frame, last context frame, omitted-frames marker.
\* Each kind appears at most once, so at most 5 frames.
NormalFramesBefore(i) ==
    Cardinality({ j \in 1..(i - 1) : frames[j].data.kind = "NormalFrame" })

\* The place of the i-th decoded frame in the fixed order; 0 when it has none.
FrameRank(i) ==
    LET f == frames[i]
        info == iter.origin_info
    IN  IF f.data.kind = "TypeFrame" \/ f.data = InternalContext("OriginalTypeLost")
        THEN 1
        ELSE IF f.data = InternalContext("ErrorTypeConstructed") THEN 2
        ELSE IF f.data = InternalContext("FurtherFramesOmitted") THEN 5
        ELSE IF /\ f.data.kind = "NormalFrame" /\ NormalFramesBefore(i) = 0
                /\ f.data = decode_static(context_first(info), NoMessage)
        THEN 3
        ELSE IF /\ f.data.kind = "NormalFrame" /\ NormalFramesBefore(i) = 1
                /\ context_second(info) # 0
                /\ f.data = decode_static(context_second(info), NoMessage)
        THEN 4
        ELSE 0

C12_DecodeOrder ==
    (Unboxed /\ iter.active) =>
        /\ \A i \in 1..Len(frames) : FrameRank(i) \in 1..5
        /\ \A i, j \in 1..Len(frames) : i < j => FrameRank(i) < FrameRank(j)
        /\ Len(frames) <= 5

\* A finished decode with a marker before and after the two context frames.
C12_Witness ==
    /\ Unboxed /\ iter.active /\ iter.ended
    /\ Len(frames) = 4
    /\ FrameRank(1) = 2 /\ FrameRank(2) = 3 /\ FrameRank(3) = 4 /\ FrameRank(4) = 5


\* ---------------------------------------------------------------------------
\* C13.  Every decode walk terminates and is one-shot.  Unboxed: at most 4
\* calls of next() return a frame, so None comes within 5 calls.  Full: None
\* comes once the index has passed the last step.  In both, after next() has
\* returned None the following call returns None again and leaves the iterator
\* as it is.
Full == repr = "repr_full"

C13_DecodeTerminates ==
    /\ (Unboxed /\ iter.active) =>
          /\ Len(frames) <= 4
          /\ Len(frames) = 4 => unboxed_next(iter).item = NoFrame
          /\ iter.ended =>
                unboxed_next(iter) = [phase |-> iter.phase, item |-> NoFrame]
    /\ (Full /\ iter.active) =>
          /\ full_next(iter, Len(steps)).idx = Len(steps)
          /\ iter.ended =>
                /\ iter.idx = Len(steps)
                /\ full_next(iter, Len(steps)) =
                       [idx |-> iter.idx, phase |-> iter.phase, item |-> NoFrame]

\* An unboxed walk that gave 4 frames and then None.
C13_Witness ==
    /\ Unboxed /\ iter.active /\ iter.ended
    /\ iter.phase = "Ended"
    /\ Len(frames) = 4


\* ---------------------------------------------------------------------------
\* C14.  Read operations have no side effects: a step of a decode (iter() or
\* next()) leaves the stored instance state unchanged, and what a decode yields
\* is a function of that state alone: as long as no push has changed the state
\* the iterator copied, the frames decoded so far are a prefix of (at the end:
\* equal to) the walk from the first phase over the stored state.  code() is
\* an operator of the stored state and writes nothing.
InstanceState == <<origin_info, original_location, steps, current_code>>

\* The frames a walk yields from the iterator state it.
RECURSIVE UnboxedWalk(_)
UnboxedWalk(it) ==
    LET r == unboxed_next(it)
    IN  IF r.item = NoFrame THEN <<>>
        ELSE <<r.item>> \o UnboxedWalk([it EXCEPT !.phase = r.phase])

\* An unboxed iterator over the stored state, at the first phase.
FirstPhaseIter ==
    [active |-> TRUE, phase |-> "TypeContext", ended |-> FALSE, idx |-> 0,
     origin_info |-> origin_info, original_location |-> original_location]

IsPrefix(a, b) == Len(a) <= Len(b) /\ a = SubSeq(b, 1, Len(a))

C14_DecodeOfStoredState ==
    /\ (Unboxed /\ ~aborted /\ iter.active /\ iter.origin_info = origin_info) =>
          /\ IsPrefix(frames, UnboxedWalk(FirstPhaseIter))
          /\ iter.ended => frames = UnboxedWalk(FirstPhaseIter)
    /\ (Full /\ iter.active /\ iter.ended) =>
          /\ frames = <<>>
          /\ full_next(full_iter, Len(steps)).item = NoFrame

C14_ReadsNoSideEffects ==
    /\ []C14_DecodeOfStoredState
    /\ [][(iter' # iter \/ frames' # frames) => UNCHANGED InstanceState]_vars

\* A finished decode of a state with two pushes, not touched since iter().
C14_Witness ==
    /\ Unboxed /\ ~aborted
    /\ Len(hist) = 2
    /\ iter.active /\ iter.ended /\ iter.origin_info = origin_info
    /\ Len(frames) >= 3


\* ---------------------------------------------------------------------------
\* C15.  push_context never fails: in the unboxed backend every call of
\* with_context completes without a panic or assertion failure and leaves a
\* state whose tag is ORIGINAL or CONTEXT_ONLY.
C15_PushNeverFails ==
    (Unboxed /\ Len(hist) > 0) =>
        /\ ~aborted
        /\ tag(origin_info) \in {TAG_STATIC_ORIGINAL, TAG_STATIC_CONTEXT_ONLY}


\* ---------------------------------------------------------------------------
\* C16.  For the same origin and the same sequence of pushed descriptors the
\* full backend's code() and the unboxed backend's code() return the same
\* value, after construction and after every push.

\* current_code of the full backend after new(e) and the pushes of h.
RECURSIVE FullCodeAfter(_, _)
FullCodeAfter(e, h) ==
    IF h = <<>> THEN full_new_code(e)
    ELSE full_push_code(FullCodeAfter(e, SubSeq(h, 1, Len(h) - 1)), h[Len(h)])

C16_BackendsAgreeOnCode ==
    (Unboxed /\ ~aborted) => code(origin_info) = FullCodeAfter(origin, hist)


\* ---------------------------------------------------------------------------
\* C17.  Constructing an unboxed error from a bare type origin aborts iff the
\* type name's byte length is not representable in WordBits - 2 bits.  For
\* every accepted length the shift loses no bit, the packed word has tag
\* TYPE_ONLY and ty_name() recovers exactly the name.
BareTypeOrigin == origin.kind = "TypeOrigin" /\ origin.src = 0

C17_TypeNameLength ==
    (Unboxed /\ BareTypeOrigin /\ hist = <<>>) =>
        /\ aborted <=> origin.name.len >= Pow2(WordBits - 2)
        /\ ~aborted =>
              /\ origin.name.len * 4 <= USIZE_MAX
              /\ Shr(Shl(origin.name.len, 2), 2) = origin.name.len
              /\ tag(origin_info) = TAG_STATIC_TYPE_ONLY
              /\ ty_name(origin_info) = origin.name

\* The longest accepted name, constructed, packed and decoded again.
C17_Witness ==
    /\ Unboxed /\ BareTypeOrigin /\ hist = <<>>
    /\ ~aborted
    /\ origin.name.len = Pow2(WordBits - 2) - 1
    /\ iter.active /\ iter.ended
    /\ Len(frames) = 1
    /\ frames[1].data.ty.len = Pow2(WordBits - 2) - 1


\* ---------------------------------------------------------------------------
\* C18.  Enabling any two of the three representation features is a build-time
\* error; with none enabled the unboxed backend is selected; and in every
\* accepted configuration exactly one backend implementation is compiled in.
C18_RepresentationConfig ==
    /\ \A fs \in SUBSET Features : Cardinality(fs) >= 2 => compile_error(fs)
    /\ ~compile_error({}) /\ unboxed_selected({}) /\ ~full_selected({})
    /\ \A fs \in SUBSET Features :
          ~compile_error(fs) => (full_selected(fs) <=> ~unboxed_selected(fs))
    /\ Cardinality(features) >= 2 => repr = "compile_error"
    /\ features = {} => Unboxed
    /\ repr # "compile_error" =>
          /\ Full <=> full_selected(features)
          /\ Unboxed <=> unboxed_selected(features)
          /\ Full <=> ~Unboxed

\* The build with no feature enabled, running the unboxed backend.
C18_Witness ==
    /\ features = {}
    /\ Unboxed /\ ~aborted
    /\ Len(hist) = 1
    /\ tag(origin_info) \in {TAG_STATIC_ORIGINAL, TAG_STATIC_CONTEXT_ONLY}


\* ---------------------------------------------------------------------------
\* C19.  Merge rule of the unboxed backend: when a last frame L is recorded
\* and descriptor S is pushed, the new last frame is S if L has no code or S
\* has a code, and remains L otherwise; in both cases the omitted flag is set
\* and the first frame is unchanged.
C19_MergeRule ==
    [][ ( /\ Unboxed
          /\ Len(hist') = Len(hist) + 1
          /\ ~aborted'
          /\ tag(origin_info) \in {TAG_STATIC_ORIGINAL, TAG_STATIC_CONTEXT_ONLY}
          /\ context_second(origin_info) # 0 )
        => LET L == context_second(origin_info)
               S == hist'[Len(hist')]
           IN  /\ context_second(origin_info') =
                      (IF ~HasCode(L) \/ HasCode(S) THEN S ELSE L)
               /\ has_omitted_context(origin_info')
               /\ context_first(origin_info') = context_first(origin_info) ]_vars


\* ---------------------------------------------------------------------------
\* C20.  Whenever a push makes with_context read the recorded last frame, the
\* address it dereferences is the descriptor address with the omitted-flag bit
\* masked off, the one context_second() reports, also when the flag is set.
C20_MaskedDereference ==
    [][ ( /\ Unboxed
          /\ Len(hist') = Len(hist) + 1
          /\ with_context_reads_original(origin_info) )
        => /\ with_context_original(origin_info) = context_second(origin_info)
           /\ with_context_original(origin_info) \in ErrorSourceStatics ]_vars


\* ---------------------------------------------------------------------------
\* C21.  State machine of the unboxed backend: a push on TYPE_ONLY yields
\* CONTEXT_ONLY with the pushed descriptor as the first frame, an empty last
\* slot and a clear omitted flag; a push on ORIGINAL or CONTEXT_ONLY keeps the
\* tag; and no push produces TYPE_ONLY.

\* A push_context call of the unboxed backend that returned.
UnboxedPushStep == Unboxed /\ Len(hist') = Len(hist) + 1 /\ ~aborted'

C21_TagTransitions ==
    [][ UnboxedPushStep =>
          /\ tag(origin_info) = TAG_STATIC_TYPE_ONLY =>
                /\ tag(origin_info') = TAG_STATIC_CONTEXT_ONLY
                /\ context_first(origin_info') = hist'[Len(hist')]
                /\ context_second(origin_info') = 0
                /\ ~has_omitted_context(origin_info')
          /\ tag(origin_info) \in {TAG_STATIC_ORIGINAL, TAG_STATIC_CONTEXT_ONLY} =>
                tag(origin_info') = tag(origin_info)
          /\ tag(origin_info') # TAG_STATIC_TYPE_ONLY ]_vars

\* A bare type origin after its first push.
C21_Witness ==
    /\ Unboxed /\ ~aborted /\ BareTypeOrigin
    /\ Len(hist) = 1
    /\ tag(origin_info) = TAG_STATIC_CONTEXT_ONLY
    /\ context_first(origin_info) = hist[1]

\* ---------------------------------------------------------------------------
\* C22.  In state ORIGINAL or CONTEXT_ONLY with no last frame recorded, a push
\* records the pushed descriptor as the last frame, whether or not it or the
\* first frame carries a code, and leaves the omitted flag clear.
C22_FirstRecord ==
    [][ ( /\ UnboxedPushStep
          /\ tag(origin_info) \in {TAG_STATIC_ORIGINAL, TAG_STATIC_CONTEXT_ONLY}
          /\ context_second(origin_info) = 0 )
        => /\ context_second(origin_info') = hist'[Len(hist')]
           /\ ~has_omitted_context(origin_info')
           /\ context_first(origin_info') = context_first(origin_info) ]_vars

\* A codeless descriptor recorded as last frame behind a code-bearing first
\* frame.
C22_Witness ==
    /\ Unboxed /\ ~aborted
    /\ origin = StaticOrigin(16)
    /\ hist = <<12>>
    /\ context_second(origin_info) = 12
    /\ ~has_omitted_context(origin_info)

\* ---------------------------------------------------------------------------
\* C23.  In every reachable packed state the low 2 bits of the tag word are
\* ORIGINAL, TYPE_ONLY or CONTEXT_ONLY, never the fourth value, so with_context
\* never reaches its unreachable branch.
C23_TagDiscriminant ==
    Unboxed =>
        tag(origin_info) \in
            {TAG_STATIC_ORIGINAL, TAG_STATIC_TYPE_ONLY, TAG_STATIC_CONTEXT_ONLY}

\* A state past the conversion of a type origin and two further pushes.
C23_Witness ==
    /\ Unboxed /\ ~aborted /\ BareTypeOrigin
    /\ Len(hist) = 3
    /\ tag(origin_info) = TAG_STATIC_CONTEXT_ONLY


\* ---------------------------------------------------------------------------
\* C24.  An unboxed decode emits a type frame iff the state is TYPE_ONLY, and
\* then it is the only frame; it emits the original-type-lost marker iff the
\* state is CONTEXT_ONLY, and then as the first frame.
HasFrameData(d) == \E i \in 1..Len(frames) : frames[i].data = d

HasTypeFrame == \E i \in 1..Len(frames) : frames[i].data.kind = "TypeFrame"

\* The decode has yielded its first item, a frame or None.
FirstCallDone == Len(frames) >= 1 \/ iter.ended

C24_TypePhase ==
    (Unboxed /\ iter.active) =>
        LET t == tag(iter.origin_info)
            lost == InternalContext("OriginalTypeLost")
        IN  /\ HasTypeFrame => t = TAG_STATIC_TYPE_ONLY
            /\ HasFrameData(lost) => t = TAG_STATIC_CONTEXT_ONLY
            /\ (FirstCallDone /\ t = TAG_STATIC_TYPE_ONLY) =>
                  /\ Len(frames) = 1
                  /\ frames[1].data = TypeFrame(ty_name(iter.origin_info), 0)
            /\ (FirstCallDone /\ t = TAG_STATIC_CONTEXT_ONLY) =>
                  /\ frames[1].data = lost
                  /\ \A i \in 2..Len(frames) : frames[i].data # lost

\* A finished decode of a state that lost its type origin to pushes.
C24_Witness ==
    /\ Unboxed /\ iter.active /\ iter.ended
    /\ tag(iter.origin_info) = TAG_STATIC_CONTEXT_ONLY
    /\ Len(frames) >= 3
    /\ frames[1].data = InternalContext("OriginalTypeLost")


\* ---------------------------------------------------------------------------
\* C25.  An unboxed decode emits the construction-mismatch marker iff the state
\* is ORIGINAL, a construction location is retained, the first descriptor has
\* its own recorded location, and the two differ in module or line.  A
\* difference in column alone does not produce it, and it is not emitted when
\* no construction location is retained.
MismatchExpected ==
    LET info == iter.origin_info
        loc == iter.original_location
    IN  /\ tag(info) = TAG_STATIC_ORIGINAL
        /\ loc.some
        /\ ErrorSourceStaticAt[context_first(info)].location # 0
        /\ LET own == DecodedLocationAt[ErrorSourceStaticAt[context_first(info)].location]
           IN  own.module # loc.module \/ own.line # loc.line

\* The decode is past its LocationMismatchFrame phase.
PastMismatchPhase ==
    iter.ended \/ iter.phase \in {"FirstContext", "LastContext", "FramesOmitted", "Ended"}

C25_MismatchMarker ==
    (Unboxed /\ iter.active) =>
        /\ HasFrameData(InternalContext("ErrorTypeConstructed")) => MismatchExpected
        /\ (PastMismatchPhase /\ MismatchExpected) =>
              HasFrameData(InternalContext("ErrorTypeConstructed"))
        /\ repr = "repr_unboxed" =>
              ~HasFrameData(InternalContext("ErrorTypeConstructed"))

\* A finished decode where the construction site and the descriptor's own
\* location differ in column only: no marker.
C25_Witness ==
    /\ Unboxed /\ iter.active /\ iter.ended
    /\ tag(iter.origin_info) = TAG_STATIC_ORIGINAL
    /\ context_first(iter.origin_info) = 8
    /\ iter.original_location = SomeLocation([module |-> 1, line |-> 10, column |-> 9])
    /\ Len(frames) >= 1
    /\ ~HasFrameData(InternalContext("ErrorTypeConstructed"))

\* ---------------------------------------------------------------------------
\* C26.  An unboxed decode emits a last context frame iff the last slot is
\* non-empty, built from that slot's descriptor with the descriptor's own
\* recorded location, and emits the omitted-frames marker iff the omitted flag
\* is set, always as the final frame.
C26_LastAndOmitted ==
    (Unboxed /\ iter.active) =>
        LET info == iter.origin_info
            has_context == tag(info) \in {TAG_STATIC_ORIGINAL, TAG_STATIC_CONTEXT_ONLY}
            omitted == InternalContext("FurtherFramesOmitted")
        IN  /\ \A i \in 1..Len(frames) :
                  FrameRank(i) = 4 =>
                      /\ has_context /\ context_second(info) # 0
                      /\ frames[i] =
                            ErrorFrame(decode_static(context_second(info), NoMessage),
                                       location_of(context_second(info)))
            /\ HasFrameData(omitted) =>
                  /\ has_context /\ has_omitted_context(info)
                  /\ frames[Len(frames)] = ErrorFrame(omitted, NoLocation)
                  /\ iter.phase = "Ended"
            /\ (iter.ended /\ has_context /\ context_second(info) # 0) =>
                  \E i \in 1..Len(frames) : FrameRank(i) = 4
            /\ (iter.ended /\ has_context /\ has_omitted_context(info)) =>
                  frames[Len(frames)] = ErrorFrame(omitted, NoLocation)

\* A finished decode ending in last context frame and omitted-frames marker.
C26_Witness ==
    /\ Unboxed /\ iter.active /\ iter.ended
    /\ Len(frames) >= 3
    /\ FrameRank(Len(frames) - 1) = 4
    /\ frames[Len(frames) - 1].location.some
    /\ frames[Len(frames)].data = InternalContext("FurtherFramesOmitted")

\* ---------------------------------------------------------------------------
\* C27.  An unboxed decode emits the first context frame whenever the state is
\* ORIGINAL or CONTEXT_ONLY; its location is the descriptor's own recorded
\* location in state CONTEXT_ONLY and the retained construction location (none
\* when not retained) in state ORIGINAL.

\* The decode is past its FirstContext phase.
PastFirstPhase ==
    iter.ended \/ iter.phase \in {"LastContext", "FramesOmitted", "Ended"}

C27_FirstContextFrame ==
    (Unboxed /\ iter.active) =>
        LET info == iter.origin_info
            has_context == tag(info) \in {TAG_STATIC_ORIGINAL, TAG_STATIC_CONTEXT_ONLY}
        IN  /\ \A i \in 1..Len(frames) :
                  FrameRank(i) = 3 =>
                      /\ has_context
                      /\ frames[i].location =
                            IF tag(info) = TAG_STATIC_CONTEXT_ONLY
                            THEN location_of(context_first(info))
                            ELSE iter.original_location
            /\ (PastFirstPhase /\ has_context) =>
                  \E i \in 1..Len(frames) : FrameRank(i) = 3
            /\ (repr = "repr_unboxed" /\ tag(info) = TAG_STATIC_ORIGINAL) =>
                  \A i \in 1..Len(frames) :
                      FrameRank(i) = 3 => frames[i].location = NoLocation

\* A first context frame at the construction site, which is not where its
\* descriptor was declared.
C27_Witness ==
    /\ Unboxed /\ iter.active /\ iter.ended
    /\ tag(iter.origin_info) = TAG_STATIC_ORIGINAL
    /\ iter.original_location.some
    /\ \E i \in 1..Len(frames) :
          /\ FrameRank(i) = 3
          /\ frames[i].location = iter.original_location
          /\ frames[i].location # location_of(context_first(iter.origin_info))


\* ---------------------------------------------------------------------------
\* C28.  Full backend: construction stores exactly one step, the origin; every
\* push_context appends exactly one step at the end and changes no existing
\* step, so after N pushes the instance holds N+1 steps in push order with the
\* origin at index 0.
C28_StepsInPushOrder ==
    Full =>
        /\ Len(steps) = Len(hist) + 1
        /\ steps[1].static_info = origin
        /\ \A i \in 1..Len(hist) : steps[i + 1].static_info = StaticOrigin(hist[i])

C28_StepsAppendOnly ==
    /\ []C28_StepsInPushOrder
    /\ [][ Full =>
             IF Len(hist') = Len(hist) + 1
             THEN /\ Len(steps') = Len(steps) + 1
                  /\ SubSeq(steps', 1, Len(steps)) = steps
             ELSE steps' = steps ]_vars

\* Three pushes on a converted error: four steps, the last one the last push.
C28_Witness ==
    /\ Full
    /\ origin.kind = "TypeOrigin"
    /\ Len(hist) = 3 /\ hist[1] # hist[3]
    /\ Len(steps) = 4
    /\ steps[4].static_info = StaticOrigin(hist[3])


\* ---------------------------------------------------------------------------
\* C29.  A substantive frame built from a descriptor carries exactly that
\* descriptor's code; its message is the supplied rendered message if any,
\* else the descriptor's static message, marked incomplete iff the descriptor's
\* incomplete-message flag is set, else absent.  The unboxed decoder never
\* supplies a rendered message.

\* The message the claim gives a frame of descriptor d.
ClaimedMessage(d, formatted) ==
    LET s == ErrorSourceStaticAt[d]
    IN  IF formatted # NoMessage THEN formatted
        ELSE IF s.message_static = 0 THEN NoMessage
        ELSE IF s.is_static_message_incomplete
        THEN [kind |-> "IncompleteStatic", text |-> s.message_static]
        ELSE [kind |-> "Static", text |-> s.message_static]

RenderedMessages == {NoMessage} \cup { Formatted(a) : a \in Arguments \ {0} }

C29_SubstantiveFrame ==
    /\ \A d \in ErrorSourceStatics, formatted \in RenderedMessages :
          decode_static(d, formatted) =
              NormalFrame(ClaimedMessage(d, formatted), ErrorSourceStaticAt[d].error_code)
    /\ (Unboxed /\ iter.active) =>
          \A i \in 1..Len(frames) :
              frames[i].data.kind = "NormalFrame" =>
                  /\ frames[i].data.msg.kind # "Formatted"
                  /\ \E d \in {context_first(iter.origin_info),
                               context_second(iter.origin_info)} \ {0} :
                        frames[i].data =
                            NormalFrame(ClaimedMessage(d, NoMessage),
                                        ErrorSourceStaticAt[d].error_code)

\* A finished decode with a frame whose static message is marked incomplete
\* and a frame without any message.
C29_Witness ==
    /\ Unboxed /\ iter.active /\ iter.ended
    /\ \E i, j \in 1..Len(frames) :
          /\ frames[i].data.kind = "NormalFrame"
          /\ frames[i].data.msg = [kind |-> "IncompleteStatic", text |-> 2]
          /\ frames[i].data.code = 64
          /\ frames[j].data.kind = "NormalFrame"
          /\ frames[j].data.msg = NoMessage


\* ---------------------------------------------------------------------------
\* C30.  decode_value::<T>() returns the typed value for the stored numeric
\* value iff the stored type identity equals T's, and returns nothing, without
\* any fatal error, for every other T.
DecodeValueAsClaimed(info, T) ==
    LET r == decode_value(info, T)
    IN  /\ r.outcome = "Some" <=> info.tid = T
        /\ r.outcome = "Some" => r.val = [tid |-> T, value |-> info.value]
        /\ info.tid # T => r.outcome = "None"

C30_DecodeValue ==
    /\ \A a \in DOMAIN ErrorCodeInfoAt, T \in TypeIds :
          DecodeValueAsClaimed(ErrorCodeInfoAt[a], T)
    /\ (Unboxed /\ ~aborted) =>
          LET current == code(origin_info)
          IN  current # 0 =>
                  \A T \in TypeIds :
                      DecodeValueAsClaimed(ErrorCodeInfoAt[current], T)

\* An error whose current code came from a push: decoding it as its own type
\* gives the value, as the other type nothing.
C30_Witness ==
    /\ Unboxed /\ ~aborted
    /\ Len(hist) >= 1
    /\ code(origin_info) = 72
    /\ decode_value(ErrorCodeInfoAt[code(origin_info)], 2).outcome = "Some"
    /\ decode_value(ErrorCodeInfoAt[code(origin_info)], 1).outcome = "None"


\* ---------------------------------------------------------------------------
\* C31.  Unboxed backend: an origin TypeOrigin(name, Some(descriptor)) gives
\* exactly the packed state of StaticOrigin(descriptor), hence the same code()
\* and decoded frames; the type name is not retained, and neither a type frame
\* nor an original-type-lost marker is emitted for it.
TypeOriginWithDescriptor == origin.kind = "TypeOrigin" /\ origin.src # 0

C31_TypeOriginWithDescriptor ==
    /\ \A e \in ErrorOrigins :
          (e.kind = "TypeOrigin" /\ e.src # 0) =>
              for_origin(e) = for_origin(StaticOrigin(e.src))
    /\ (Unboxed /\ TypeOriginWithDescriptor) =>
          /\ hist = <<>> => origin_info = for_origin(StaticOrigin(origin.src))
          /\ tag(origin_info) = TAG_STATIC_ORIGINAL
          /\ context_first(origin_info) = origin.src
          /\ iter.active =>
                /\ ~HasTypeFrame
                /\ ~HasFrameData(InternalContext("OriginalTypeLost"))

\* A converted error that carries a descriptor, decoded with no push: its
\* first frame is the descriptor's substantive frame.
C31_Witness ==
    /\ Unboxed /\ ~aborted
    /\ origin = TypeOrigin([ptr |-> 128, len |-> 9], 16)
    /\ hist = <<>>
    /\ iter.active /\ iter.ended
    /\ Len(frames) >= 1
    /\ frames[Len(frames)].data = decode_static(16, NoMessage)


\* ---------------------------------------------------------------------------
\* C32.  An unboxed decode yields at least 1 and at most 4 frames for every
\* reachable state: exactly 1 for TYPE_ONLY, between 1 and 4 for ORIGINAL and
\* between 2 and 4 for CONTEXT_ONLY.
C32_DecodeLength ==
    (Unboxed /\ iter.active) =>
        LET t == tag(iter.origin_info)
            n == Len(frames)
        IN  /\ n <= 4
            /\ t = TAG_STATIC_TYPE_ONLY => n <= 1
            /\ iter.ended =>
                  /\ n >= 1
                  /\ t = TAG_STATIC_TYPE_ONLY => n = 1
                  /\ t = TAG_STATIC_CONTEXT_ONLY => n >= 2

\* The shortest decode of a CONTEXT_ONLY state: the marker and the first frame.
C32_Witness ==
    /\ Unboxed /\ iter.active /\ iter.ended
    /\ tag(iter.origin_info) = TAG_STATIC_CONTEXT_ONLY
    /\ Len(frames) = 2


\* ---------------------------------------------------------------------------
\* C33.  An unboxed decoder obtained from iter() holds its own copy of the
\* packed state: push_context calls interleaved between its next() calls do
\* not change the frames it yields, which are exactly those of the state at
\* the moment iter() was called.

\* An iterator at the first phase over the packed state the decoder copied.
CopiedStateIter ==
    [active |-> TRUE, phase |-> "TypeContext", ended |-> FALSE, idx |-> 0,
     origin_info |-> iter.origin_info, original_location |-> iter.original_location]

C33_FramesOfCopiedState ==
    (Unboxed /\ iter.active) =>
        /\ IsPrefix(frames, UnboxedWalk(CopiedStateIter))
        /\ iter.ended => frames = UnboxedWalk(CopiedStateIter)

C33_DecoderOwnsCopy ==
    /\ []C33_FramesOfCopiedState
    /\ [][ (Unboxed /\ Len(hist') = Len(hist) + 1) =>
               (iter' = iter /\ frames' = frames) ]_vars
    /\ [][ (Unboxed /\ iter.active /\ iter'.active /\ frames' # <<>>) =>
               iter'.origin_info = iter.origin_info ]_vars

\* A decode begun before the second push and finished after it: one last
\* frame less than the instance now holds, and no omitted marker.
C33_Witness ==
    /\ Unboxed /\ ~aborted
    /\ iter.active /\ iter.ended
    /\ tag(iter.origin_info) = TAG_STATIC_ORIGINAL
    /\ context_second(iter.origin_info) = 0
    /\ has_omitted_context(origin_info)
    /\ frames[Len(frames)].data = decode_static(context_first(iter.origin_info), NoMessage)


\* ---------------------------------------------------------------------------
\* C34.  The assertions guarding ty_name, context_first and context_second
\* never fail on a call made by code() or by the unboxed decoder, in any state
\* reachable by construction followed by any sequence of pushes.
C34_AccessorAssertions ==
    Unboxed =>
        /\ code_asserts(origin_info)
        /\ iter.active => next_asserts(iter)
        /\ \A p \in {"TypeContext", "LocationMismatchFrame", "FirstContext",
                     "LastContext", "FramesOmitted", "Ended"} :
              next_asserts([unboxed_iter(origin_info, original_location) EXCEPT !.phase = p])

\* code() has passed both context assertions and the decoder the one of
\* context_second, on a converted instance with a codeless last frame.
C34_Witness ==
    /\ Unboxed /\ ~aborted
    /\ tag(origin_info) = TAG_STATIC_CONTEXT_ONLY
    /\ context_second(origin_info) # 0
    /\ ErrorSourceStaticAt[context_second(origin_info)].error_code = 0
    /\ iter.active /\ iter.phase = "FramesOmitted"
    /\ iter.origin_info = origin_info
    /\ Len(frames) = 3


\* ---------------------------------------------------------------------------
\* C35.  Unboxed backend: the optional rendered-message argument of new() and
\* push_context() has no effect: two runs that differ only in those arguments
\* reach identical packed states, identical code() results and identical
\* decoded frames.

\* What a caller can observe of a packed state: code() and the decoded frames.
\* new() and push_context() act on the instance alone, so the two outcomes of
\* a push are compared in every state of the instance before a decoder is
\* taken; the step formula covers every push, wherever the decoder stands.
Observed(info) ==
    [info |-> info,
     code |-> IF code_asserts(info) THEN code(info) ELSE 0,
     frames |-> UnboxedWalk(unboxed_iter(info, original_location))]

C35_SameWhateverArguments ==
    /\ \A source \in ErrorOrigins, a1, a2 \in Arguments :
          (a1 < a2 /\ for_origin_asserts(source)) =>
              unboxed_new(source, a1) = unboxed_new(source, a2)
    /\ (Unboxed /\ ~aborted /\ ~iter.active) =>
          \A a1, a2 \in Arguments :
             a1 < a2 =>
                \A source \in ErrorSourceStatics,
                   read \in original_reads(origin_info) \ {"abort"} :
                    Observed(unboxed_push_context(origin_info, source, a1, read))
                      = Observed(unboxed_push_context(origin_info, source, a2, read))

C35_ArgumentsUnused ==
    /\ []C35_SameWhateverArguments
    /\ [][ (Unboxed /\ Len(hist') = Len(hist) + 1 /\ ~aborted') =>
               \A a \in Arguments :
                  \E read \in original_reads(origin_info) \ {"abort"} :
                     origin_info' = unboxed_push_context(origin_info,
                                                         hist'[Len(hist')], a, read) ]_vars

\* A converted instance with one frame recorded, where a push with a rendered
\* message changes the packed state.
C35_Witness ==
    /\ Unboxed /\ ~aborted
    /\ Len(hist) = 2
    /\ tag(origin_info) = TAG_STATIC_CONTEXT_ONLY
    /\ \E source \in ErrorSourceStatics, read \in original_reads(origin_info) \ {"abort"} :
          /\ unboxed_push_context(origin_info, source, 7, read) # origin_info
          /\ Observed(unboxed_push_context(origin_info, source, 7, read)).code # code(origin_info)


\* ---------------------------------------------------------------------------
\* C36.  In every reachable ORIGINAL or CONTEXT_ONLY state the omitted flag is
\* set only if the last slot is non-empty (the auxiliary word is never the
\* bare flag bit), so decode never yields an omitted-frames marker without a
\* last context frame just before it.
C36_OmittedNeedsLast ==
    Unboxed =>
        /\ tag(origin_info) \in {TAG_STATIC_ORIGINAL, TAG_STATIC_CONTEXT_ONLY} =>
              /\ origin_info.additional # OMITTED_BIT_MASK
              /\ has_omitted_context(origin_info) => context_second(origin_info) # 0
        /\ iter.active =>
              \A i \in 1..Len(frames) :
                  frames[i] = OmittedMarker =>
                      /\ i >= 2
                      /\ context_second(iter.origin_info) # 0
                      /\ frames[i - 1] =
                            ErrorFrame(decode_static(context_second(iter.origin_info),
                                                     NoMessage),
                                       location_of(context_second(iter.origin_info)))

\* A decode of an instance built from a descriptor, without a mismatch marker:
\* first frame, last frame, omitted marker.
C36_Witness ==
    /\ UnboxedDecoded
    /\ tag(origin_info) = TAG_STATIC_ORIGINAL
    /\ has_omitted_context(origin_info)
    /\ Len(frames) = 3
    /\ frames[3] = OmittedMarker
    /\ frames[2].data = decode_static(context_second(origin_info), NoMessage)


\* ---------------------------------------------------------------------------
\* C37.  The tag word is non-zero in every reachable packed state, given
\* non-null descriptor addresses, including the TYPE_ONLY state built for an
\* empty (zero-length) type name.
C37_TagWordNonZero ==
    /\ \A s \in ErrorSourceStatics : s # 0
    /\ \A e \in ErrorOrigins : for_origin_asserts(e) => for_origin(e).tag # 0
    /\ (Unboxed /\ for_origin_asserts(origin)) =>
          /\ origin_info.tag # 0
          /\ iter.active => iter.origin_info.tag # 0
          /\ (BareTypeOrigin /\ origin.name.len = 0 /\ hist = <<>>) =>
                origin_info.tag = TAG_STATIC_TYPE_ONLY

\* The TYPE_ONLY state of an empty type name, decoded to its type frame.
C37_Witness ==
    /\ UnboxedDecoded
    /\ BareTypeOrigin
    /\ origin.name.len = 0
    /\ hist = <<>>
    /\ origin_info.tag = TAG_STATIC_TYPE_ONLY
    /\ Len(frames) = 1
    /\ frames[1].data = TypeFrame(ty_name(origin_info), 0)

====
